---- MODULE Spec2Model ----
(***************************************************************************)
(* FrameBufferWriter (kernel_with_bootloader/src/writer.rs): a text        *)
(* console that blits bitmap glyphs into a raw pixel framebuffer.          *)
(*                                                                         *)
(* The state is the writer's fields (framebuffer, info, x_pos, y_pos,      *)
(* text_color), the position of the process (before construction, ready,   *)
(* panicked) and a record of what the last call did.  Each public          *)
(* operation (new, write_str, clear, set_text_color) is one action.        *)
(***************************************************************************)
EXTENDS Integers, Sequences, FiniteSets, TLC

VARIABLES
    framebuffer,  \* the bytes of the region, indexed from 0
    info,         \* FrameBufferInfo
    x_pos, y_pos, \* cursor: top-left pixel of the next glyph
    text_color,   \* [u8; 3]
    phase,        \* "raw" before new(), "ready", "panicked" once the process stopped
    run,          \* glyphs rendered in a row since the cursor was at the start of
                  \* a line; -1 once a tab moved the cursor inside the line
    last          \* what the last call did (history, not a field of the writer)

vars == <<framebuffer, info, x_pos, y_pos, text_color, phase, run, last>>

(***************************************************************************)
(* Program constants.                                                      *)
(***************************************************************************)
LINE_SPACING == 2
LETTER_SPACING == 0
BORDER_PADDING == 1
\* let tab_size = 4
TAB_SIZE == 4
\* PixelFormat::U8 => [if intensity > 200 { 0xf } else { 0 }, 0, 0, 0]
U8_THRESHOLD == 200
U8_ON == 15
\* text_color: [255, 255, 255] in new()
WHITE == <<255, 255, 255>>
BLUE_RedFirst == <<255, 0, 0>>

\* self.set_text_color([0, 0, 255]) in write_char
BLUE == <<0, 0, 255>>

(***************************************************************************)
(* font_constants (constants.rs is not part of the sources at hand): the   *)
(* glyph cell of the monospace font, scaled down.                          *)
(***************************************************************************)
CHAR_RASTER_WIDTH == 2
CHAR_RASTER_HEIGHT == 2
BACKUP_CHAR == "?"

(***************************************************************************)
(* Bounds of the model.                                                    *)
(***************************************************************************)
MaxWidth == 6
MaxHeight == 5
\* y_pos is a usize that '\n' increases without limit; the model stops
\* issuing writes that would leave it above MaxY.
MaxY == 9

Widths == CHAR_RASTER_WIDTH .. MaxWidth
Heights == CHAR_RASTER_HEIGHT .. MaxHeight
\* (pixel_format, bytes_per_pixel) pairs a bootloader may report
PixelKinds == { <<"Rgb", 3>>, <<"Bgr", 3>>, <<"U8", 1>>, <<"Unknown", 3>> }
\* what the region holds before construction
RawFills == {0, 170}
\* colours the caller passes to set_text_color
CallerColors == { <<10, 20, 30>> }

\* characters fed to write_str: the four matched by write_char, two with a
\* raster of their own, one outside the font's coverage
Chars == { "\n", "\r", "\t", "c", "a", " ", "~" }
CoveredChars == { "\n", "\r", "\t", "c", "a", " ", BACKUP_CHAR }

\* pixels per row: rows are aligned, so odd widths are padded
Stride(w) == w + (w % 2)

\* a surface one glyph wide and two text lines tall, and a surface too low
\* for a text line on which a tab from the left border stays inside the line
TallHeight == 2 * BORDER_PADDING + 2 * CHAR_RASTER_HEIGHT + LINE_SPACING + 1
NarrowWidth == BORDER_PADDING + CHAR_RASTER_WIDTH + 1
WideWidth == BORDER_PADDING + CHAR_RASTER_WIDTH * TAB_SIZE + 1
LowHeight == 2 * BORDER_PADDING + CHAR_RASTER_HEIGHT

\* a surface with room for one text line
LineHeight == 2 * BORDER_PADDING + CHAR_RASTER_HEIGHT + 1

\* the descriptor of a w x h surface whose rows are stride pixels apart
PixelStrideInfo(w, h, stride, fmt, bpp) ==
    [width |-> w, height |-> h, stride |-> stride, bytes_per_pixel |-> bpp,
     pixel_format |-> fmt, byte_len |-> h * stride * bpp]

\* the descriptor of a w x h surface whose rows are stride bytes apart
ByteStrideInfo(w, h, stride, fmt, bpp) ==
    [width |-> w, height |-> h, stride |-> stride, bytes_per_pixel |-> bpp,
     pixel_format |-> fmt, byte_len |-> h * stride]

FrameBufferInfos ==
    { PixelStrideInfo(w, h, Stride(w), k[1], k[2]) :
         w \in Widths, h \in Heights, k \in PixelKinds }
    \cup
    { PixelStrideInfo(NarrowWidth, TallHeight, Stride(NarrowWidth), "Bgr", 4),
      PixelStrideInfo(WideWidth, LowHeight, Stride(WideWidth), "Rgb", 3),
      ByteStrideInfo(NarrowWidth, LineHeight, NarrowWidth * 3, "Rgb", 3) }

\* the length of the region the bootloader hands over
ByteLen(i) == i.byte_len

(***************************************************************************)
(* noto_sans_mono_bitmap::get_raster: intensity of cell (x, y) of the      *)
(* raster of c, every raster CHAR_RASTER_WIDTH x CHAR_RASTER_HEIGHT.       *)
(***************************************************************************)
get_raster(c, x, y) ==
    CASE c = "a" -> IF (x + y) % 2 = 0 THEN 255
                    ELSE IF y % 2 = 0 THEN 0 ELSE 100
      [] c = BACKUP_CHAR -> IF y = 0 THEN 230 ELSE 0
      [] OTHER -> 0

\* get_char_raster: the raster of c, or of BACKUP_CHAR when c has none
get_char_raster(c) ==
    LET g == IF c \in CoveredChars THEN c ELSE BACKUP_CHAR
    IN  [ y \in 0 .. CHAR_RASTER_HEIGHT - 1 |->
            [ x \in 0 .. CHAR_RASTER_WIDTH - 1 |-> get_raster(g, x, y) ] ]

(***************************************************************************)
(* The writer as a record, and its methods as operators on it.             *)
(***************************************************************************)
Self ==
    [ framebuffer |-> framebuffer, info |-> info, x_pos |-> x_pos, y_pos |-> y_pos,
      text_color |-> text_color, phase |-> phase, run |-> run, last |-> last ]

\* op: the call; n: the length of the string written; c: the last character
\* processed; filled: run before that character;
\* nl: write_char called newline() for it; clr: write_char called clear() for
\* it; dirty: a clear() erased a non-zero byte; bx, by: the cursor on entry to
\* write_rendered_char; fault: why the process stopped; ret: what write_str
\* returned, if it returned.
NoLast == [ op |-> "none", c |-> "", n |-> 0, filled |-> -1,
            nl |-> FALSE, clr |-> FALSE, dirty |-> FALSE,
            bx |-> 0, by |-> 0, fault |-> "none", ret |-> "none" ]

set_text_color_Recolors(self, color) ==
    [ self EXCEPT !.text_color = color,
                  !.framebuffer = [ i \in DOMAIN self.framebuffer |->
                                      IF self.framebuffer[i] = 0 THEN 0 ELSE color[3] ] ]

set_text_color(self, color) == [ self EXCEPT !.text_color = color ]

carriage_return_LeftEdge(self) == [ self EXCEPT !.x_pos = BORDER_PADDING - 1 ]

carriage_return_NoPadding(self) == [ self EXCEPT !.x_pos = 0 ]

carriage_return(self) == [ self EXCEPT !.x_pos = BORDER_PADDING ]

newline_KeepsColumn(self) ==
    [ self EXCEPT !.y_pos = @ + CHAR_RASTER_HEIGHT + LINE_SPACING ]

newline_NoSpacing(self) ==
    carriage_return([ self EXCEPT !.y_pos = @ + CHAR_RASTER_HEIGHT ])

newline(self) ==
    carriage_return([ self EXCEPT !.y_pos = @ + CHAR_RASTER_HEIGHT + LINE_SPACING ])

clear_CursorOnly(self) ==
    [ self EXCEPT !.x_pos = BORDER_PADDING,
                  !.y_pos = BORDER_PADDING,
                  !.last.dirty = \E i \in DOMAIN self.framebuffer : self.framebuffer[i] # 0 ]

clear_ResetsColor(self) ==
    [ self EXCEPT !.x_pos = BORDER_PADDING,
                  !.y_pos = BORDER_PADDING,
                  !.text_color = WHITE,
                  !.framebuffer = [ i \in DOMAIN self.framebuffer |-> 0 ],
                  !.last.dirty = \E i \in DOMAIN self.framebuffer : self.framebuffer[i] # 0 ]

clear(self) ==
    [ self EXCEPT !.x_pos = BORDER_PADDING,
                  !.y_pos = BORDER_PADDING,
                  !.framebuffer = [ i \in DOMAIN self.framebuffer |-> 0 ],
                  !.last.dirty = \E i \in DOMAIN self.framebuffer : self.framebuffer[i] # 0 ]

width(self) == self.info.width

height(self) == self.info.height

PixelColor_SameOrder(self, intensity) ==
    IF self.info.pixel_format = "U8"
    THEN << IF intensity > U8_THRESHOLD THEN U8_ON ELSE 0, 0, 0, 0 >>
    ELSE << self.text_color[1], self.text_color[2], self.text_color[3], 0 >>

\* the match on self.info.pixel_format in write_pixel
PixelColor(self, intensity) ==
    CASE self.info.pixel_format = "Rgb" ->
            << self.text_color[1], self.text_color[2], self.text_color[3], 0 >>
      [] self.info.pixel_format = "Bgr" ->
            << self.text_color[3], self.text_color[2], self.text_color[1], 0 >>
      [] self.info.pixel_format = "U8" ->
            << IF intensity > U8_THRESHOLD THEN U8_ON ELSE 0, 0, 0, 0 >>

Supported(fmt) == fmt \in {"Rgb", "Bgr", "U8"}

Panic(self, why) ==
    [ self EXCEPT !.phase = "panicked", !.last.fault = why ]

\* dst[byte_offset..byte_offset + k].copy_from_slice(&color[..k])
RECURSIVE copy_from_slice(_, _, _, _)
copy_from_slice(dst, byte_offset, color, k) ==
    IF k = 0 THEN dst
    ELSE copy_from_slice([ dst EXCEPT ![byte_offset + k - 1] = color[k] ],
                         byte_offset, color, k - 1)

\* the bytes of color[..bytes_per_pixel] stored at byte_offset
Store(self, byte_offset, color) ==
    [ self EXCEPT !.framebuffer =
        copy_from_slice(@, byte_offset, color, self.info.bytes_per_pixel) ]

write_pixel_Opaque(self, x, y, intensity) ==
    LET byte_offset == (y * self.info.stride + x) * self.info.bytes_per_pixel
    IN  IF ~Supported(self.info.pixel_format)
        THEN Panic([ self EXCEPT !.info.pixel_format = "Rgb" ], "format")
        ELSE IF byte_offset + self.info.bytes_per_pixel > ByteLen(self.info)
        THEN Panic(self, "bounds")
        ELSE Store(self, byte_offset, PixelColor(self, intensity))

write_pixel_GuessesRgb(self, x, y, intensity) ==
    LET byte_offset == (y * self.info.stride + x) * self.info.bytes_per_pixel
    IN  IF intensity = 0 THEN self
        ELSE IF byte_offset + self.info.bytes_per_pixel > ByteLen(self.info)
        THEN Panic(self, "bounds")
        ELSE Store(self, byte_offset,
                   IF Supported(self.info.pixel_format) THEN PixelColor(self, intensity)
                   ELSE << self.text_color[1], self.text_color[2], self.text_color[3], 0 >>)

write_pixel_Recovers(self, x, y, intensity) ==
    LET s == IF Supported(self.info.pixel_format) THEN self
             ELSE [ self EXCEPT !.info.pixel_format = "Rgb" ]
        byte_offset == (y * s.info.stride + x) * s.info.bytes_per_pixel
    IN  IF intensity = 0 THEN self
        ELSE IF byte_offset + s.info.bytes_per_pixel > ByteLen(s.info)
        THEN Panic(s, "bounds")
        ELSE Store(s, byte_offset, PixelColor(s, intensity))

write_pixel(self, x, y, intensity) ==
    IF intensity = 0 THEN self
    ELSE
      LET pixel_offset == y * self.info.stride + x
          bytes_per_pixel == self.info.bytes_per_pixel
          byte_offset == pixel_offset * bytes_per_pixel
      IN  IF ~Supported(self.info.pixel_format)
          THEN Panic([ self EXCEPT !.info.pixel_format = "Rgb" ], "format")
          ELSE IF byte_offset + bytes_per_pixel > ByteLen(self.info)
                    \/ bytes_per_pixel > 4
          THEN Panic(self, "bounds")
          ELSE LET color == PixelColor(self, intensity)
               IN  Store(self, byte_offset, color)

\* the two nested loops of write_rendered_char from cell k on, row-major
RECURSIVE BlitFrom(_, _, _)
BlitFrom(self, raster, k) ==
    IF k >= CHAR_RASTER_WIDTH * CHAR_RASTER_HEIGHT \/ self.phase = "panicked"
    THEN self
    ELSE LET y == k \div CHAR_RASTER_WIDTH
             x == k % CHAR_RASTER_WIDTH
         IN  BlitFrom(write_pixel(self, self.x_pos + x, self.y_pos + y, raster[y][x]),
                      raster, k + 1)

write_rendered_char(self, rendered_char) ==
    LET s0 == [ self EXCEPT !.last.bx = self.x_pos, !.last.by = self.y_pos ]
        s1 == BlitFrom(s0, rendered_char, 0)
    IN  IF s1.phase = "panicked" THEN s1
        ELSE [ s1 EXCEPT !.x_pos = @ + CHAR_RASTER_WIDTH + LETTER_SPACING ]

NeedsNewline_PastEdge(self) == self.x_pos + CHAR_RASTER_WIDTH > width(self)

NeedsClear_Never(self) == FALSE

NeedsClear_PastEdge(self) ==
    self.y_pos + CHAR_RASTER_HEIGHT + BORDER_PADDING > self.info.height

\* if new_xpos >= self.width()
NeedsNewline(self) == self.x_pos + CHAR_RASTER_WIDTH >= width(self)

\* if new_ypos >= self.height()
NeedsClear(self) == self.y_pos + CHAR_RASTER_HEIGHT + BORDER_PADDING >= height(self)

write_char_TabRunsOff(self, c) ==
    LET s == [ self EXCEPT !.last = [ NoLast EXCEPT !.op = "write_str", !.c = c,
                                        !.n = self.last.n, !.filled = self.run ] ]
    IN  CASE c = "\n" -> newline(s)
          [] c = "c"  -> set_text_color(s, BLUE)
          [] c = "\t" -> [ s EXCEPT !.x_pos = @ + CHAR_RASTER_WIDTH * TAB_SIZE ]
          [] c = "\r" -> carriage_return(s)
          [] OTHER ->
               LET s1 == IF NeedsNewline(s)
                         THEN newline([ s EXCEPT !.last.nl = TRUE ])
                         ELSE s
                   s2 == IF NeedsClear(s1)
                         THEN clear([ s1 EXCEPT !.last.clr = TRUE ])
                         ELSE s1
               IN  write_rendered_char(s2, get_char_raster(c))

write_char(self, c) ==
    LET s == [ self EXCEPT !.last = [ NoLast EXCEPT !.op = "write_str", !.c = c,
                                        !.n = self.last.n, !.filled = self.run ] ]
    IN  CASE c = "\n" -> newline(s)
          [] c = "c"  -> set_text_color(s, BLUE)
          [] c = "\t" ->
               LET tab_width == CHAR_RASTER_WIDTH * TAB_SIZE
                   s1 == [ s EXCEPT !.x_pos = @ + tab_width ]
               IN  IF s1.x_pos >= width(s1)
                   THEN newline([ s1 EXCEPT !.last.nl = TRUE ])
                   ELSE s1
          [] c = "\r" -> carriage_return(s)
          [] OTHER ->
               LET s1 == IF NeedsNewline(s)
                         THEN newline([ s EXCEPT !.last.nl = TRUE ])
                         ELSE s
                   s2 == IF NeedsClear(s1)
                         THEN clear([ s1 EXCEPT !.last.clr = TRUE ])
                         ELSE s1
               IN  write_rendered_char(s2, get_char_raster(c))

\* characters that reach the last arm of the match in write_char
Rendered(c) == c \notin {"\n", "c", "\t", "\r"}

\* the history variable run after write_char(c) took the writer from before to after
RunAfter(before, c, after) ==
    IF after.x_pos = BORDER_PADDING THEN 0
    ELSE IF Rendered(c) /\ after.phase = "ready"
         THEN IF after.last.nl \/ after.last.clr THEN 1
              ELSE IF before.run >= 0 THEN before.run + 1 ELSE -1
    ELSE IF c = "\t" THEN -1
    ELSE before.run

write_str_FirstOnly(self, s) ==
    IF s = <<>> \/ self.phase = "panicked" THEN self
    ELSE LET after == write_char(self, Head(s))
         IN  [ after EXCEPT !.run = RunAfter(self, Head(s), after) ]

\* for c in s.chars() { self.write_char(c) }; a panic ends the process
RECURSIVE write_str(_, _)
write_str(self, s) ==
    IF s = <<>> \/ self.phase = "panicked" THEN self
    ELSE LET after == write_char(self, Head(s))
         IN  write_str([ after EXCEPT !.run = RunAfter(self, Head(s), after) ], Tail(s))

(***************************************************************************)
(* Actions.                                                                *)
(***************************************************************************)
Install(self) ==
    \E s \in {self} :
        /\ framebuffer' = s.framebuffer
        /\ info' = s.info
        /\ x_pos' = s.x_pos
        /\ y_pos' = s.y_pos
        /\ text_color' = s.text_color
        /\ phase' = s.phase
        /\ run' = s.run
        /\ last' = s.last

Init ==
    /\ info \in FrameBufferInfos
    /\ \E f \in RawFills : framebuffer = [ i \in 0 .. ByteLen(info) - 1 |-> f ]
    /\ x_pos = 0
    /\ y_pos = 0
    /\ text_color = <<0, 0, 0>>
    /\ phase = "raw"
    /\ run = 0
    /\ last = NoLast

\* FrameBufferWriter::new
New ==
    /\ phase = "raw"
    /\ LET logger == [ Self EXCEPT !.x_pos = BORDER_PADDING,
                                   !.y_pos = BORDER_PADDING,
                                   !.text_color = WHITE,
                                   !.phase = "ready",
                                   !.last = [ NoLast EXCEPT !.op = "new" ] ]
       IN  Install([ clear(logger) EXCEPT !.run = 0 ])

\* the strings the caller writes: every single character, and a few pairs
Strs == { <<c>> : c \in Chars } \cup { <<"a", "a">>, <<"\t", "a">>, <<"\n", "~">> }

\* <FrameBufferWriter as fmt::Write>::write_str
WriteStr(s) ==
    /\ phase = "ready"
    /\ \E after \in { write_str([ Self EXCEPT !.last.n = Len(s) ], s) } :
          /\ after.y_pos <= MaxY
          \* Ok(()) when the loop ran to its end
          /\ Install([ after EXCEPT !.last.ret =
                                     IF after.phase = "panicked" THEN "none" ELSE "Ok" ])

\* FrameBufferWriter::clear, called by the owner of the writer
Clear ==
    /\ phase = "ready"
    /\ Install(clear([ Self EXCEPT !.last = [ NoLast EXCEPT !.op = "clear" ], !.run = 0 ]))

\* FrameBufferWriter::set_text_color, called by the owner of the writer
SetTextColor(color) ==
    /\ phase = "ready"
    /\ Install(set_text_color(
                 [ Self EXCEPT !.last = [ NoLast EXCEPT !.op = "set_text_color" ] ], color))

Next ==
    \/ New
    \/ \E s \in Strs : WriteStr(s)
    \/ Clear
    \/ \E color \in CallerColors : SetTextColor(color)

Spec == Init /\ [][Next]_vars

TypeOK ==
    /\ info \in [ width : Nat, height : Nat, stride : Nat, bytes_per_pixel : Nat,
                  pixel_format : {"Rgb", "Bgr", "U8", "Unknown"}, byte_len : Nat ]
    /\ DOMAIN framebuffer = 0 .. ByteLen(info) - 1
    /\ x_pos \in Nat /\ y_pos \in Nat
    /\ phase \in {"raw", "ready", "panicked"}

(***************************************************************************)
(* Vocabulary of the properties.                                           *)
(***************************************************************************)
GlyphCells == (0 .. CHAR_RASTER_WIDTH - 1) \X (0 .. CHAR_RASTER_HEIGHT - 1)

\* the cells of the raster of c with a non-zero intensity
InkCells(c) == { cell \in GlyphCells : get_char_raster(c)[cell[2]][cell[1]] # 0 }

\* byte offset of the pixel of cell for a glyph whose top-left corner is (bx, by)
CellOffset(cell, bx, by) ==
    ((by + cell[2]) * info.stride + (bx + cell[1])) * info.bytes_per_pixel

\* the bytes of the pixel of cell
CellBytes(cell, bx, by) ==
    CellOffset(cell, bx, by) .. CellOffset(cell, bx, by) + info.bytes_per_pixel - 1

AllZero(fb) == \A i \in DOMAIN fb : fb[i] = 0

\* the last call was write_str and its last character went to the glyph path
LastRendered == last.op = "write_str" /\ Rendered(last.c)

\* the surface holds at least one glyph inside its border
RoomForGlyph ==
    /\ info.width > BORDER_PADDING + CHAR_RASTER_WIDTH
    /\ info.height > CHAR_RASTER_HEIGHT + 2 * BORDER_PADDING

(***************************************************************************)
(* C1 as stated: whenever a glyph is blitted, on any surface, the cursor   *)
(* on entry to write_rendered_char has x_pos + glyph width < width and     *)
(* y_pos + glyph height + border padding < height.                         *)
(***************************************************************************)
C1_BlitInsideAnySurface ==
    LastRendered =>
        /\ last.bx + CHAR_RASTER_WIDTH < info.width
        /\ last.by + CHAR_RASTER_HEIGHT + BORDER_PADDING < info.height

(***************************************************************************)
(* C1 amended: on a surface with width > border padding + glyph width and  *)
(* height > glyph height + 2 * border padding, whenever a glyph is blitted *)
(* the cursor on entry to write_rendered_char has x_pos + glyph width <    *)
(* width and y_pos + glyph height + border padding < height.               *)
(***************************************************************************)
C1_BlitInsideSurface ==
    (LastRendered /\ RoomForGlyph) =>
        /\ last.bx + CHAR_RASTER_WIDTH < info.width
        /\ last.by + CHAR_RASTER_HEIGHT + BORDER_PADDING < info.height

\* a glyph was blitted after the automatic newline and the clear it forced,
\* which erased earlier text
C1_Witness ==
    /\ LastRendered /\ RoomForGlyph /\ phase = "ready"
    /\ last.nl /\ last.clr /\ last.dirty
    /\ last.bx = BORDER_PADDING /\ last.by = BORDER_PADDING

(***************************************************************************)
(* C2 as stated: a write_str of one character other than '\n', '\r' and    *)
(* '\t', from a state with x_pos + glyph width < width, that returns,      *)
(* increases x_pos by glyph width + letter spacing and leaves y_pos.       *)
(***************************************************************************)
C2_PrintableAdvances ==
    [][ ( /\ last'.op = "write_str" /\ last'.n = 1
          /\ last'.c \notin {"\n", "\r", "\t"}
          /\ phase' = "ready"
          /\ x_pos + CHAR_RASTER_WIDTH < info.width )
        => ( /\ x_pos' = x_pos + CHAR_RASTER_WIDTH + LETTER_SPACING
             /\ y_pos' = y_pos ) ]_vars

(***************************************************************************)
(* C3: a rendered character written while y_pos + glyph height + border    *)
(* padding >= height (y_pos taken after the automatic newline, if x_pos +  *)
(* glyph width >= width) clears first: the glyph is blitted at (border     *)
(* padding, border padding) and afterwards the framebuffer holds that      *)
(* glyph on zeroes, nothing of what it held before.                        *)
(***************************************************************************)
C3_ClearBeforeGlyph ==
    [][ ( /\ last'.op = "write_str" /\ last'.n = 1 /\ Rendered(last'.c)
          /\ LET y == IF x_pos + CHAR_RASTER_WIDTH >= info.width
                      THEN y_pos + CHAR_RASTER_HEIGHT + LINE_SPACING
                      ELSE y_pos
             IN  y + CHAR_RASTER_HEIGHT + BORDER_PADDING >= info.height )
        => ( /\ last'.clr
             /\ last'.bx = BORDER_PADDING /\ last'.by = BORDER_PADDING
             /\ y_pos' = BORDER_PADDING
             /\ LET ink == InkCells(last'.c)
                     inked == UNION { CellBytes(cell, BORDER_PADDING, BORDER_PADDING) :
                                        cell \in ink }
                 IN  /\ \A i \in DOMAIN framebuffer' \ inked : framebuffer'[i] = 0
                     /\ phase' = "ready" =>
                           \A cell \in ink :
                             \A i \in CellBytes(cell, BORDER_PADDING, BORDER_PADDING) :
                               framebuffer'[i] =
                                 PixelColor(Self, get_char_raster(last'.c)[cell[2]][cell[1]])
                                   [i - CellOffset(cell, BORDER_PADDING, BORDER_PADDING) + 1] ) ]_vars

\* the clear was forced by the automatic newline and erased earlier text
C3_Witness ==
    /\ LastRendered /\ last.n = 1 /\ phase = "ready"
    /\ last.nl /\ last.clr /\ last.dirty
    /\ x_pos = BORDER_PADDING + CHAR_RASTER_WIDTH + LETTER_SPACING
    /\ y_pos = BORDER_PADDING
    /\ ~AllZero(framebuffer)

(***************************************************************************)
(* C4 as stated: a rendered character written while x_pos + glyph width >= *)
(* width is blitted after a newline (at x = border padding, on the next    *)
(* line or, if that overflows, at the top after the clear), and the line   *)
(* it leaves, filled with glyphs from its start, holds exactly             *)
(* floor((width - 2 * border padding) / glyph width) of them.              *)
(***************************************************************************)
C4_WrapAnySurface ==
    [][ ( /\ last'.op = "write_str" /\ last'.n = 1 /\ Rendered(last'.c)
          /\ x_pos + CHAR_RASTER_WIDTH >= info.width )
        => ( /\ last'.nl
             /\ last'.bx = BORDER_PADDING
             /\ last'.by = IF last'.clr THEN BORDER_PADDING
                           ELSE y_pos + CHAR_RASTER_HEIGHT + LINE_SPACING
             /\ run >= 0 =>
                  run = (info.width - 2 * BORDER_PADDING) \div CHAR_RASTER_WIDTH ) ]_vars

(***************************************************************************)
(* C4 amended: a rendered character written while x_pos + glyph width >=   *)
(* width is blitted after a newline (at x = border padding, on the next    *)
(* line or, if that overflows, at the top after the clear); and on a       *)
(* surface with width > border padding + glyph width the line it leaves,   *)
(* filled with glyphs from its start, holds exactly                        *)
(* floor((width - 2 * border padding) / glyph width) of them.              *)
(***************************************************************************)
C4_Wrap ==
    [][ ( /\ last'.op = "write_str" /\ last'.n = 1 /\ Rendered(last'.c)
          /\ x_pos + CHAR_RASTER_WIDTH >= info.width )
        => ( /\ last'.nl
             /\ last'.bx = BORDER_PADDING
             /\ last'.by = IF last'.clr THEN BORDER_PADDING
                           ELSE y_pos + CHAR_RASTER_HEIGHT + LINE_SPACING
             /\ (run >= 0 /\ info.width > BORDER_PADDING + CHAR_RASTER_WIDTH) =>
                  run = (info.width - 2 * BORDER_PADDING) \div CHAR_RASTER_WIDTH ) ]_vars

\* a full line of at least two glyphs was left by the automatic newline
C4_Witness ==
    /\ LastRendered /\ last.n = 1 /\ phase = "ready" /\ last.nl
    /\ last.filled >= 2
    /\ last.filled = (info.width - 2 * BORDER_PADDING) \div CHAR_RASTER_WIDTH
    /\ run = 1

\* the glyph went to the second line of a surface that holds two
C4_WitnessNextLine ==
    /\ LastRendered /\ last.n = 1 /\ phase = "ready" /\ last.nl /\ ~last.clr
    /\ last.by = BORDER_PADDING + CHAR_RASTER_HEIGHT + LINE_SPACING

(***************************************************************************)
(* C5: with a pixel format other than Rgb, Bgr and U8 no byte is ever      *)
(* stored: the framebuffer stays zero, the first glyph pixel of non-zero   *)
(* intensity stops the process with the cursor not advanced, and while the *)
(* process runs the last character written was rendered in full.           *)
(***************************************************************************)
C5_UnsupportedFormatHalts ==
    /\ (phase # "raw" /\ (info.pixel_format = "Unknown" \/ last.fault = "format"))
          => AllZero(framebuffer)
    /\ info.pixel_format = "Unknown" => phase # "panicked"
    /\ last.fault = "format" =>
          /\ phase = "panicked"
          /\ LastRendered /\ InkCells(last.c) # {}
          /\ x_pos = last.bx /\ y_pos = last.by
    /\ (phase = "ready" /\ LastRendered) =>
          /\ x_pos = last.bx + CHAR_RASTER_WIDTH + LETTER_SPACING
          /\ y_pos = last.by
          /\ info.pixel_format = "Unknown" => InkCells(last.c) = {}
          /\ info.pixel_format # "Unknown" =>
               \A cell \in InkCells(last.c) :
                 \A i \in CellBytes(cell, last.bx, last.by) :
                   framebuffer[i] =
                     PixelColor(Self, get_char_raster(last.c)[cell[2]][cell[1]])
                       [i - CellOffset(cell, last.bx, last.by) + 1]

\* the process stopped on the unsupported format, nothing stored
C5_Witness ==
    /\ phase = "panicked" /\ last.fault = "format"
    /\ last.c = "a"
    /\ AllZero(framebuffer)

(***************************************************************************)
(* C6: write_str("\n") sets x_pos to the border padding, adds glyph height *)
(* + line spacing to y_pos, and leaves the framebuffer and the text colour.*)
(***************************************************************************)
C6_Newline ==
    [][ (last'.op = "write_str" /\ last'.n = 1 /\ last'.c = "\n")
        => ( /\ x_pos' = BORDER_PADDING
             /\ y_pos' = y_pos + CHAR_RASTER_HEIGHT + LINE_SPACING
             /\ framebuffer' = framebuffer
             /\ text_color' = text_color ) ]_vars

\* a newline taken inside a line that holds text
C6_Witness ==
    /\ last.op = "write_str" /\ last.n = 1 /\ last.c = "\n"
    /\ last.filled > 0
    /\ x_pos = BORDER_PADDING
    /\ y_pos = BORDER_PADDING + CHAR_RASTER_HEIGHT + LINE_SPACING
    /\ ~AllZero(framebuffer)

(***************************************************************************)
(* C7: write_str("\r") sets x_pos to the border padding and leaves y_pos,  *)
(* the framebuffer and the text colour.                                    *)
(***************************************************************************)
C7_CarriageReturn ==
    [][ (last'.op = "write_str" /\ last'.n = 1 /\ last'.c = "\r")
        => ( /\ x_pos' = BORDER_PADDING
             /\ y_pos' = y_pos
             /\ framebuffer' = framebuffer
             /\ text_color' = text_color ) ]_vars

\* a carriage return taken inside a line below the first that holds text
C7_Witness ==
    /\ last.op = "write_str" /\ last.n = 1 /\ last.c = "\r"
    /\ last.filled > 0
    /\ x_pos = BORDER_PADDING
    /\ y_pos > BORDER_PADDING
    /\ ~AllZero(framebuffer)

(***************************************************************************)
(* C8: blitting a glyph changes no byte outside the pixels of its cells of *)
(* non-zero intensity: bytes of zero-intensity cells and bytes outside the *)
(* glyph are what they were on entry to write_rendered_char.               *)
(***************************************************************************)
C8_Transparency ==
    [][ (last'.op = "write_str" /\ last'.n = 1 /\ Rendered(last'.c))
        => LET inked == UNION { CellBytes(cell, last'.bx, last'.by) :
                                  cell \in InkCells(last'.c) }
           IN  \A i \in DOMAIN framebuffer \ inked :
                 framebuffer'[i] = IF last'.clr THEN 0 ELSE framebuffer[i] ]_vars

\* a glyph was blitted over text, and a byte under one of its zero-intensity
\* cells still holds the older colour
C8_Witness ==
    /\ LastRendered /\ last.n = 1 /\ phase = "ready" /\ ~last.clr
    /\ InkCells(last.c) # {}
    /\ \E cell \in GlyphCells \ InkCells(last.c) :
         /\ CellOffset(cell, last.bx, last.by) \in DOMAIN framebuffer
         /\ framebuffer[CellOffset(cell, last.bx, last.by)] # 0

(***************************************************************************)
(* C9: a completed blit in the Rgb or Bgr format leaves, for every cell of *)
(* non-zero intensity at pixel (x, y), the first bytes_per_pixel bytes of  *)
(* [R, G, B, 0] (Rgb) or [B, G, R, 0] (Bgr) of the current text colour at  *)
(* byte offset (y * stride + x) * bytes_per_pixel.                         *)
(***************************************************************************)
C9_ChannelOrder ==
    [][ ( /\ last'.op = "write_str" /\ last'.n = 1 /\ Rendered(last'.c)
          /\ phase' = "ready"
          /\ info.pixel_format \in {"Rgb", "Bgr"} )
        => LET R == text_color[1]
               G == text_color[2]
               B == text_color[3]
               bytes == IF info.pixel_format = "Rgb" THEN <<R, G, B, 0>>
                        ELSE <<B, G, R, 0>>
           IN  \A cell \in InkCells(last'.c) :
                 LET x == last'.bx + cell[1]
                     y == last'.by + cell[2]
                     byte_offset == (y * info.stride + x) * info.bytes_per_pixel
                 IN  \A j \in 0 .. info.bytes_per_pixel - 1 :
                       framebuffer'[byte_offset + j] = bytes[j + 1] ]_vars

\* colour (10, 20, 30), three bytes per pixel, Bgr: the pixel holds 30, 20, 10
C9_Witness ==
    /\ LastRendered /\ last.n = 1 /\ phase = "ready" /\ last.c = "a"
    /\ info.pixel_format = "Bgr" /\ info.bytes_per_pixel = 3
    /\ text_color = <<10, 20, 30>>
    /\ LET o == (last.by * info.stride + last.bx) * 3
       IN  /\ framebuffer[o] = 30
           /\ framebuffer[o + 1] = 20
           /\ framebuffer[o + 2] = 10

(***************************************************************************)
(* C10: right after new() the cursor is at (border padding, border         *)
(* padding) and every byte of the framebuffer is zero, whatever the region *)
(* held.                                                                   *)
(***************************************************************************)
C10_NewClears ==
    last.op = "new" =>
        /\ x_pos = BORDER_PADDING
        /\ y_pos = BORDER_PADDING
        /\ AllZero(framebuffer)

\* constructed over a region that held non-zero bytes
C10_Witness ==
    /\ last.op = "new" /\ phase = "ready" /\ last.dirty

(***************************************************************************)
(* C11: clear() sets the cursor to (border padding, border padding) and    *)
(* every byte of the framebuffer to zero and leaves the text colour and    *)
(* the descriptor; writing '\n', '\r' or '\t' and set_text_color leave     *)
(* every byte of the framebuffer as it was.                                *)
(***************************************************************************)
C11_Clear ==
    [][ /\ last'.op = "clear" =>
             /\ x_pos' = BORDER_PADDING
             /\ y_pos' = BORDER_PADDING
             /\ AllZero(framebuffer')
             /\ DOMAIN framebuffer' = DOMAIN framebuffer
             /\ text_color' = text_color
             /\ info' = info
        /\ ( \/ last'.op = "set_text_color"
             \/ ( /\ last'.op = "write_str" /\ last'.n = 1
                  /\ last'.c \in {"\n", "\r", "\t"} ) )
           => framebuffer' = framebuffer ]_vars

\* clear() called with text on the screen, the cursor away from the origin
\* and a colour other than the initial one
C11_Witness ==
    /\ last.op = "clear" /\ last.dirty
    /\ text_color = <<10, 20, 30>>
    /\ x_pos = BORDER_PADDING /\ y_pos = BORDER_PADDING
    /\ AllZero(framebuffer)

(***************************************************************************)
(* C12: set_text_color(col) stores col and leaves the cursor and every     *)
(* byte of the framebuffer; the stored colour then changes only by another *)
(* set_text_color (the 'c' arm of write_char calls it), and every pixel of *)
(* non-zero intensity rendered in Rgb or Bgr holds the stored colour.      *)
(***************************************************************************)
C12_SetTextColor ==
    [][ /\ last'.op = "set_text_color" =>
             /\ text_color' \in CallerColors
             /\ x_pos' = x_pos /\ y_pos' = y_pos
             /\ framebuffer' = framebuffer
             /\ info' = info /\ phase' = phase
        /\ (phase = "ready" /\ text_color' # text_color) =>
             \/ last'.op = "set_text_color"
             \/ last'.op = "write_str" /\ last'.c = "c"
        /\ ( /\ last'.op = "write_str" /\ last'.n = 1 /\ Rendered(last'.c)
             /\ phase' = "ready" /\ info.pixel_format \in {"Rgb", "Bgr"} )
           => /\ text_color' = text_color
              /\ \A cell \in InkCells(last'.c) :
                   LET o == CellOffset(cell, last'.bx, last'.by)
                       first == IF info.pixel_format = "Rgb" THEN 1 ELSE 3
                   IN  /\ framebuffer'[o] = text_color[first]
                       /\ framebuffer'[o + 1] = text_color[2]
                       /\ framebuffer'[o + 2] = text_color[4 - first] ]_vars

\* a glyph in the colour set by the caller next to a glyph in the initial
\* colour, which the call did not change
C12_Witness ==
    /\ LastRendered /\ last.n = 1 /\ phase = "ready" /\ last.c = "a"
    /\ info.pixel_format = "Rgb" /\ ~last.clr
    /\ text_color = <<10, 20, 30>>
    /\ last.bx = BORDER_PADDING + CHAR_RASTER_WIDTH
    /\ framebuffer[CellOffset(<<0, 0>>, last.bx, last.by)] = 10
    /\ framebuffer[CellOffset(<<0, 0>>, BORDER_PADDING, last.by)] = 255

(***************************************************************************)
(* C13: no step changes the width, height, stride or bytes_per_pixel of    *)
(* the descriptor, and the pixel format changes only in the step that      *)
(* meets an unsupported format and stops the process.                      *)
(***************************************************************************)
C13_DescriptorFixed ==
    [][ /\ info'.width = info.width
        /\ info'.height = info.height
        /\ info'.stride = info.stride
        /\ info'.bytes_per_pixel = info.bytes_per_pixel
        /\ info'.pixel_format # info.pixel_format =>
             /\ ~Supported(info.pixel_format)
             /\ phase = "ready" /\ phase' = "panicked"
             /\ last'.fault = "format" ]_vars

\* the process stopped on the unsupported format and the tag was overwritten
C13_Witness ==
    /\ phase = "panicked" /\ last.fault = "format" /\ last.c = "~"
    /\ info.pixel_format = "Rgb" /\ info.bytes_per_pixel = 3

(***************************************************************************)
(* C14: write_str("\t") adds 4 glyph widths to x_pos; if that reaches the  *)
(* width a newline follows (x_pos = border padding, y_pos + glyph height + *)
(* line spacing), otherwise y_pos stays; no byte of the framebuffer        *)
(* changes and clear() is not called.                                      *)
(***************************************************************************)
C14_Tab ==
    [][ (last'.op = "write_str" /\ last'.n = 1 /\ last'.c = "\t")
        => /\ IF x_pos + CHAR_RASTER_WIDTH * 4 >= info.width
              THEN /\ x_pos' = BORDER_PADDING
                   /\ y_pos' = y_pos + CHAR_RASTER_HEIGHT + LINE_SPACING
              ELSE /\ x_pos' = x_pos + CHAR_RASTER_WIDTH * 4
                   /\ y_pos' = y_pos
           /\ framebuffer' = framebuffer
           /\ ~last'.clr /\ ~last'.dirty
           /\ text_color' = text_color /\ phase' = phase ]_vars

\* a tab that stayed inside the line, with text on the screen
C14_Witness ==
    /\ last.op = "write_str" /\ last.n = 1 /\ last.c = "\t" /\ ~last.nl
    /\ x_pos = BORDER_PADDING + CHAR_RASTER_WIDTH * 4
    /\ x_pos < info.width
    /\ ~AllZero(framebuffer)

\* a tab that ran past the right edge and went to the next line
C14_WitnessWrap ==
    /\ last.op = "write_str" /\ last.n = 1 /\ last.c = "\t" /\ last.nl
    /\ x_pos = BORDER_PADDING /\ y_pos > BORDER_PADDING
    /\ ~AllZero(framebuffer)

(***************************************************************************)
(* C15: write_str("c") sets the text colour to (0, 0, 255) and leaves the  *)
(* cursor and every byte of the framebuffer: no glyph is rendered.         *)
(***************************************************************************)
C15_LetterC ==
    [][ (last'.op = "write_str" /\ last'.n = 1 /\ last'.c = "c")
        => /\ text_color' = <<0, 0, 255>>
           /\ x_pos' = x_pos /\ y_pos' = y_pos
           /\ framebuffer' = framebuffer
           /\ info' = info /\ phase' = phase
           /\ ~last'.nl /\ ~last'.clr ]_vars

\* 'c' written inside a line of text in another colour
C15_Witness ==
    /\ last.op = "write_str" /\ last.n = 1 /\ last.c = "c"
    /\ text_color = <<0, 0, 255>>
    /\ x_pos > BORDER_PADDING
    /\ \E i \in DOMAIN framebuffer : framebuffer[i] = 20

(***************************************************************************)
(* C16 as stated: in the U8 format a completed blit leaves, for every cell *)
(* of non-zero intensity, a first byte of 255 (the largest value of a      *)
(* channel) when the intensity exceeds the threshold and 0 otherwise, and  *)
(* zeroes in the other bytes of the pixel, whatever the text colour.       *)
(***************************************************************************)
C16_GrayLevel ==
    [][ ( /\ last'.op = "write_str" /\ last'.n = 1 /\ Rendered(last'.c)
          /\ phase' = "ready" /\ info.pixel_format = "U8" )
        => \A cell \in InkCells(last'.c) :
             LET o == CellOffset(cell, last'.bx, last'.by)
                 intensity == get_char_raster(last'.c)[cell[2]][cell[1]]
             IN  /\ framebuffer'[o] = IF intensity > U8_THRESHOLD THEN 255 ELSE 0
                 /\ \A j \in 1 .. info.bytes_per_pixel - 1 : framebuffer'[o + j] = 0 ]_vars

(***************************************************************************)
(* Vocabulary of C17 and C18.                                              *)
(***************************************************************************)
\* what a caller can observe of two writers is the same
SameScreen(p, q) ==
    /\ p.framebuffer = q.framebuffer
    /\ p.x_pos = q.x_pos /\ p.y_pos = q.y_pos
    /\ p.text_color = q.text_color
    /\ p.info = q.info /\ p.phase = q.phase

\* write_char applied to s[i], s[i+1], ... in turn, until the process stops
RECURSIVE EachChar(_, _, _)
EachChar(self, s, i) ==
    IF i > Len(s) \/ self.phase = "panicked" THEN self
    ELSE EachChar(write_char(self, s[i]), s, i + 1)

\* pairs <<a, b>> of strings
Splits ==
    { << <<"a">>, <<"a">> >>, << <<"\t">>, <<"a">> >>, << <<"\n">>, <<"~">> >>,
      << <<"c">>, <<"a">> >>, << <<"a">>, <<"\r", "~">> >>, << <<"a", "a">>, <<"~">> >>,
      << <<>>, <<"a">> >>, << <<"a", "\n">>, <<>> >> }

\* rows stride pixels apart: the layout write_pixel computes offsets for
PixelLayout ==
    /\ info.stride >= info.width
    /\ info.byte_len >= info.height * info.stride * info.bytes_per_pixel

\* rows stride bytes apart
ByteLayout ==
    /\ info.stride >= info.width * info.bytes_per_pixel
    /\ info.byte_len = info.height * info.stride

\* no store has left the region, and the pixels of the last glyph are in it
WritesInside ==
    /\ last.fault # "bounds"
    /\ (LastRendered /\ phase = "ready")
         => \A cell \in InkCells(last.c) :
              CellBytes(cell, last.bx, last.by) \subseteq DOMAIN framebuffer

(***************************************************************************)
(* C17: in every state of a running writer and for strings a and b,        *)
(* write_str(a ++ b) leaves the same cursor, text colour and framebuffer   *)
(* as write_str(a) followed by write_str(b), and the same as write_char    *)
(* applied to each character of a ++ b in order; a write_str that returned *)
(* returned Ok.                                                            *)
(***************************************************************************)
C17_WriteStrInOrder ==
    /\ phase = "ready" =>
         \A p \in Splits :
           \A whole \in { write_str(Self, p[1] \o p[2]) },
              parts \in { write_str(write_str(Self, p[1]), p[2]) },
              each \in { EachChar(Self, p[1] \o p[2], 1) } :
             SameScreen(whole, parts) /\ SameScreen(whole, each)
    /\ (last.op = "write_str" /\ phase = "ready") => last.ret = "Ok"

\* write_str("aa") has returned, its second glyph on the line below the first
C17_Witness ==
    /\ last.op = "write_str" /\ last.n = 2 /\ last.c = "a" /\ last.ret = "Ok"
    /\ phase = "ready"
    /\ last.filled = 1 /\ last.nl /\ ~last.clr
    /\ y_pos > BORDER_PADDING
    /\ ~SameScreen(write_str(Self, <<"a">>), Self)

C18_ByteStrideFault ==
    /\ phase = "panicked" /\ last.fault = "bounds"
    /\ ByteLayout /\ RoomForGlyph /\ info.bytes_per_pixel = 3

C19_CursorInside ==
    (phase # "raw" /\ info.width > BORDER_PADDING + CHAR_RASTER_WIDTH)
        => /\ BORDER_PADDING <= x_pos /\ x_pos < info.width
           /\ y_pos >= BORDER_PADDING

\* the cursor in the last column, below the first line, after a glyph
C19_Witness ==
    /\ phase = "ready" /\ LastRendered
    /\ info.width > BORDER_PADDING + CHAR_RASTER_WIDTH
    /\ x_pos = info.width - 1
    /\ y_pos > BORDER_PADDING
====
